---- MODULE Spec2Model ----
(***************************************************************************)
(* A state-machine model of the 2d-ball-bounce-sim core: the rotating      *)
(* square Container with its gap, CollisionDetector::checkContainerCollision*)
(* and the BallManager lifecycle driven by GameState::update.              *)
(*                                                                         *)
(* Numbers.  A C++ float is modelled as a fixed-point integer with FP      *)
(* steps per unit (value v is stored as v * FP).  Products and quotients   *)
(* are rescaled and truncated (FMul, FDiv); a square root is the integer   *)
(* square root (Isqrt).  A comparison of a distance with an integer        *)
(* threshold is exact under this model: Isqrt(n) < R  <=>  sqrt(n) < R.    *)
(* Angles are stored in units of PI/1800-th of a half turn (0.1 degree).   *)
(***************************************************************************)
EXTENDS Integers, Sequences, FiniteSets, TLC

\* ------------------------------------------------------------------ numbers

\* fixed-point steps per unit used for every float of the program
FP == 100

\* MathUtils::PI in angle units (one unit is a tenth of a degree)
PI == 1800

\* MathUtils::TWO_PI
TWO_PI == 2 * PI

\* <cfloat> FLT_MAX, the initial value of minPenetration
FLT_MAX == 2147483647

Abs(a) == IF a < 0 THEN -a ELSE a

\* float product of two fixed-point values (truncated)
FMul(a, b) ==
    LET p == a * b
    IN  IF p >= 0 THEN p \div FP ELSE -((-p) \div FP)

\* float quotient of two fixed-point values (truncated), b > 0
FDiv(a, b) ==
    LET p == a * FP
    IN  IF p >= 0 THEN p \div b ELSE -((-p) \div b)

RECURSIVE IsqrtIter(_, _, _)
IsqrtIter(n, lo, hi) ==
    IF lo >= hi THEN lo
    ELSE LET mid == (lo + hi + 1) \div 2
         IN  IF mid * mid <= n THEN IsqrtIter(n, mid, hi)
             ELSE IsqrtIter(n, lo, mid - 1)

\* std::sqrt on fixed-point squares: the largest r with r*r <= n
Isqrt(n) == IsqrtIter(n, 0, IF n < 46340 THEN n ELSE 46340)

\* MathUtils::clamp
clamp(v, lo, hi) == IF v < lo THEN lo ELSE IF v > hi THEN hi ELSE v

\* MathUtils::degToRad: degrees (fixed-point) to angle units
degToRad(deg) == (deg * PI) \div (180 * FP)

\* MathUtils::normalizeAngle: wrap into [0, 2*pi)
normalizeAngle(a) == a % TWO_PI

\* ------------------------------------------------------------------ Vector2D

Vector2D(px, py) == [x |-> px, y |-> py]

VAdd(a, b) == Vector2D(a.x + b.x, a.y + b.y)

VSub(a, b) == Vector2D(a.x - b.x, a.y - b.y)

\* Vector2D::operator*(float)
VScale(v, s) == Vector2D(FMul(v.x, s), FMul(v.y, s))

\* Vector2D::operator/(float)
VDivide(v, s) == Vector2D(FDiv(v.x, s), FDiv(v.y, s))

VNeg(v) == Vector2D(-v.x, -v.y)

\* Vector2D::dot
Dot(a, b) == FMul(a.x, b.x) + FMul(a.y, b.y)

\* Vector2D::magnitudeSquared, kept unscaled (FP * FP steps per unit)
MagnitudeSquaredRaw(v) == v.x * v.x + v.y * v.y

\* Vector2D::magnitude
Magnitude(v) == Isqrt(MagnitudeSquaredRaw(v))

\* Vector2D::distance
Distance(a, b) == Magnitude(VSub(a, b))

\* Vector2D::normalized
Normalized(v) ==
    LET m == Magnitude(v)
    IN  IF m > 0 THEN VDivide(v, m) ELSE Vector2D(0, 0)

\* ------------------------------------------------------------------ Container

\* rotation angles whose sine and cosine are exact in fixed point
\* (quarter turns and the 3-4-5 triangle's angles)
ExactAngles ==
    {0, 369, 531, 900, 1269, 1431, 1800, 2169, 2331, 2700, 3069, 3231}

\* std::cos, on ExactAngles
Cos(a) ==
    CASE a \in {0} -> 100
      [] a \in {369, 3231} -> 80
      [] a \in {531, 3069} -> 60
      [] a \in {900, 2700} -> 0
      [] a \in {1269, 2331} -> -60
      [] a \in {1431, 2169} -> -80
      [] a \in {1800} -> -100

\* std::sin, on ExactAngles
Sin(a) ==
    CASE a \in {0, 1800} -> 0
      [] a \in {369, 1431} -> 60
      [] a \in {531, 1269} -> 80
      [] a \in {900} -> 100
      [] a \in {2169, 3231} -> -60
      [] a \in {2331, 3069} -> -80
      [] a \in {2700} -> -100

\* Container::Container
NewContainer(ctr, side, gapFraction, side0) ==
    [center |-> ctr, sideLength |-> side, gapSizeFraction |-> gapFraction,
     gapSide |-> side0, rotationSpeed |-> 36 * FP, currentAngleRad |-> 0]

\* mutant of ContainerUpdated: the angle is not normalized
ContainerUpdatedNoWrap(c, deltaTime) ==
    LET deltaAngleDeg == FMul(c.rotationSpeed, deltaTime)
    IN  [c EXCEPT !.currentAngleRad = c.currentAngleRad + degToRad(deltaAngleDeg)]

\* Container::update
ContainerUpdated(c, deltaTime) ==
    LET deltaAngleDeg == FMul(c.rotationSpeed, deltaTime)
        advanced == c.currentAngleRad + degToRad(deltaAngleDeg)
    IN  [c EXCEPT !.currentAngleRad = normalizeAngle(advanced)]

\* Container::getWorldCorners
getWorldCorners(c) ==
    LET halfSize == c.sideLength \div 2
        localCorners == << Vector2D(halfSize, -halfSize),
                           Vector2D(halfSize, halfSize),
                           Vector2D(-halfSize, halfSize),
                           Vector2D(-halfSize, -halfSize) >>
        cosAngle == Cos(c.currentAngleRad)
        sinAngle == Sin(c.currentAngleRad)
    IN  [i \in 1..4 |->
            LET rotatedX == FMul(localCorners[i].x, cosAngle)
                              - FMul(localCorners[i].y, sinAngle)
                rotatedY == FMul(localCorners[i].x, sinAngle)
                              + FMul(localCorners[i].y, cosAngle)
            IN  Vector2D(c.center.x + rotatedX, c.center.y + rotatedY)]

\* Container::getWorldEdges; edges[i + 1] is the code's edges[i]
getWorldEdges(c) ==
    LET corners == getWorldCorners(c)
    IN  [k \in 1..4 |->
            [start |-> corners[k],
             end |-> corners[(k % 4) + 1],
             sideIndex |-> k - 1,
             hasGap |-> (k - 1 = c.gapSide)]]

\* Container::setSideLength
setSideLength(c, newSideLength) == [c EXCEPT !.sideLength = newSideLength]

\* Container::setGapSizeFraction
setGapSizeFraction(c, fraction) == [c EXCEPT !.gapSizeFraction = fraction]

\* mutant of getGapBoundaries: the gap is not centred, it ends at the edge's end
getGapBoundariesAtEnd(c) ==
    LET edges == getWorldEdges(c)
        gapEdge == edges[c.gapSide + 1]
        edgeVector == VSub(gapEdge.end, gapEdge.start)
        edgeLength == Magnitude(edgeVector)
        gapLength == FMul(edgeLength, c.gapSizeFraction)
        gapStartDist == edgeLength - gapLength
        gapEndDist == gapStartDist + gapLength
        edgeDir == Normalized(edgeVector)
    IN  [gapStart |-> VAdd(gapEdge.start, VScale(edgeDir, gapStartDist)),
         gapEnd |-> VAdd(gapEdge.start, VScale(edgeDir, gapEndDist))]

\* Container::getGapBoundaries
getGapBoundaries(c) ==
    LET edges == getWorldEdges(c)
        gapEdge == edges[c.gapSide + 1]
        edgeVector == VSub(gapEdge.end, gapEdge.start)
        edgeLength == Magnitude(edgeVector)
        gapLength == FMul(edgeLength, c.gapSizeFraction)
        gapStartDist == (edgeLength - gapLength) \div 2
        gapEndDist == gapStartDist + gapLength
        edgeDir == Normalized(edgeVector)
    IN  [gapStart |-> VAdd(gapEdge.start, VScale(edgeDir, gapStartDist)),
         gapEnd |-> VAdd(gapEdge.start, VScale(edgeDir, gapEndDist))]

\* ------------------------------------------------------------------ Ball

\* Ball::Ball (velocity and colour play no part in detection or lifecycle)
Ball(pos, r) == [position |-> pos, radius |-> r]

\* ------------------------------------------------------------------ CollisionDetector

\* the 0.0001f guards: below one fixed-point step, so "> 0.0001f" is "> 0"
NEAR_ZERO == 0

\* the 0.5f tolerance of the gap test
GAP_EPSILON == 50

\* CollisionInfo::CollisionInfo
NoCollision == [hasCollision |-> FALSE, normal |-> Vector2D(0, 0), penetration |-> 0]

\* mutant of closestPointInGap: the tolerance is left out
closestPointInGapExact(closestPoint, gap) ==
    LET distToGapStart == Distance(closestPoint, gap.gapStart)
        distToGapEnd == Distance(closestPoint, gap.gapEnd)
        gapLength == Distance(gap.gapStart, gap.gapEnd)
    IN  distToGapStart + distToGapEnd <= gapLength

\* checkContainerCollision, the gap test of the gap-bearing edge
closestPointInGap(closestPoint, gap) ==
    LET distToGapStart == Distance(closestPoint, gap.gapStart)
        distToGapEnd == Distance(closestPoint, gap.gapEnd)
        gapLength == Distance(gap.gapStart, gap.gapEnd)
    IN  distToGapStart + distToGapEnd <= gapLength + GAP_EPSILON

\* checkContainerCollision, the geometry of one edge (loop body up to the
\* inside test): closest point, gap test, distance, outward normal, side
edgeGeometry(ball, c, edge, gap) ==
    LET edgeVector == VSub(edge.end, edge.start)
        edgeLength == Magnitude(edgeVector)
        degenerate == edgeLength <= NEAR_ZERO
        edgeDir == IF degenerate THEN Vector2D(0, 0) ELSE VDivide(edgeVector, edgeLength)
        toBall == VSub(ball.position, edge.start)
        projection == clamp(Dot(toBall, edgeDir), 0, edgeLength)
        closestPoint == VAdd(edge.start, VScale(edgeDir, projection))
        inGap == edge.hasGap /\ closestPointInGap(closestPoint, gap)
        toBallFromEdge == VSub(ball.position, closestPoint)
        distance == Magnitude(toBallFromEdge)
        perp0 == Vector2D(-edgeDir.y, edgeDir.x)
        edgeCenter == VScale(VAdd(edge.start, edge.end), FP \div 2)
        centerToEdge == VSub(edgeCenter, c.center)
        edgePerp == IF Dot(perp0, centerToEdge) < 0 THEN VNeg(perp0) ELSE perp0
        ballIsInside ==
            IF distance > NEAR_ZERO
            THEN Dot(VDivide(toBallFromEdge, distance), edgePerp) < 0
            ELSE TRUE
    IN  [sideIndex |-> edge.sideIndex, hasGap |-> edge.hasGap,
         skipped |-> degenerate \/ inGap, inGap |-> inGap,
         projection |-> projection, closestPoint |-> closestPoint,
         toBallFromEdge |-> toBallFromEdge, distance |-> distance,
         edgePerp |-> edgePerp, ballIsInside |-> ballIsInside]

\* mutant of edgeContact: the normal of an inside overlap is not inverted
edgeContactNotInverted(ball, c, edge, gap) ==
    LET g == edgeGeometry(ball, c, edge, gap)
        valid == ~g.skipped
                 /\ ((g.ballIsInside /\ g.distance < ball.radius) \/ ~g.ballIsInside)
        penetration == IF g.ballIsInside THEN ball.radius - g.distance
                       ELSE ball.radius + g.distance
        normal == IF g.distance > NEAR_ZERO
                  THEN VDivide(g.toBallFromEdge, g.distance)
                  ELSE g.edgePerp
    IN  [valid |-> valid, penetration |-> penetration, normal |-> normal, geom |-> g]

\* checkContainerCollision, the contact one edge offers (src/physics version):
\* an inside overlap, or any position on the outer side ("tunneling case")
edgeContact(ball, c, edge, gap) ==
    LET g == edgeGeometry(ball, c, edge, gap)
        valid == ~g.skipped
                 /\ ((g.ballIsInside /\ g.distance < ball.radius) \/ ~g.ballIsInside)
        penetration == IF g.ballIsInside THEN ball.radius - g.distance
                       ELSE ball.radius + g.distance
        normal == IF g.ballIsInside
                  THEN IF g.distance > NEAR_ZERO
                       THEN VNeg(VDivide(g.toBallFromEdge, g.distance))
                       ELSE g.edgePerp
                  ELSE IF g.distance > NEAR_ZERO
                       THEN VDivide(g.toBallFromEdge, g.distance)
                       ELSE g.edgePerp
    IN  [valid |-> valid, penetration |-> penetration, normal |-> normal, geom |-> g]

\* the update of bestCollision for one candidate contact
\* ("Store the deepest collision found so far": penetration < minPenetration)
storeBest(acc, contact) ==
    IF contact.valid /\ contact.penetration < acc.minPenetration
    THEN [best |-> [hasCollision |-> TRUE, normal |-> contact.normal,
                    penetration |-> contact.penetration],
          minPenetration |-> contact.penetration]
    ELSE acc

RECURSIVE containerLoop(_, _, _, _, _)
\* the for loop over the edges, from edge k on
containerLoop(ball, c, gap, k, acc) ==
    IF k > 4 THEN acc
    ELSE containerLoop(ball, c, gap, k + 1,
                       storeBest(acc, edgeContact(ball, c, getWorldEdges(c)[k], gap)))

\* CollisionDetector::checkContainerCollision (src/physics/CollisionDetector.cpp)
checkContainerCollision(ball, c) ==
    containerLoop(ball, c, getGapBoundaries(c), 1,
                  [best |-> NoCollision, minPenetration |-> FLT_MAX]).best

\* checkContainerCollision of the two-sided revision: the contact one edge
\* offers is an overlap from either side, distance < radius
edgeContactTwoSided(ball, c, edge, gap) ==
    LET g == edgeGeometry(ball, c, edge, gap)
        valid == ~g.skipped /\ g.distance < ball.radius
        normal == IF g.distance > NEAR_ZERO
                  THEN VNeg(VDivide(g.toBallFromEdge, g.distance))
                  ELSE IF g.ballIsInside THEN g.edgePerp ELSE VNeg(g.edgePerp)
    IN  [valid |-> valid, penetration |-> ball.radius - g.distance,
         normal |-> normal, geom |-> g]

RECURSIVE containerLoopTwoSided(_, _, _, _, _)
\* the loop of the two-sided revision: every valid overlap overwrites the last
containerLoopTwoSided(ball, c, gap, k, best) ==
    IF k > 4 THEN best
    ELSE LET contact == edgeContactTwoSided(ball, c, getWorldEdges(c)[k], gap)
         IN  containerLoopTwoSided(ball, c, gap, k + 1,
                 IF contact.valid
                 THEN [hasCollision |-> TRUE, normal |-> contact.normal,
                       penetration |-> contact.penetration]
                 ELSE best)

\* CollisionDetector::checkContainerCollision, two-sided revision
checkContainerCollisionTwoSided(ball, c) ==
    containerLoopTwoSided(ball, c, getGapBoundaries(c), 1, NoCollision)

\* the 0.0001f guard on a squared distance: one step of a fixed-point square
NEAR_ZERO_SQUARED == 1

\* mutant of checkBallCollision: touching circles count as overlapping
checkBallCollisionInclusive(ballA, ballB) ==
    LET delta == VSub(ballB.position, ballA.position)
        distanceSquared == MagnitudeSquaredRaw(delta)
        combinedRadius == ballA.radius + ballB.radius
        combinedRadiusSquared == combinedRadius * combinedRadius
    IN  IF distanceSquared <= combinedRadiusSquared /\ distanceSquared > NEAR_ZERO_SQUARED
        THEN LET distance == Isqrt(distanceSquared)
             IN  [hasCollision |-> TRUE, normal |-> VDivide(delta, distance),
                  penetration |-> combinedRadius - distance]
        ELSE NoCollision

\* CollisionDetector::checkBallCollision
checkBallCollision(ballA, ballB) ==
    LET delta == VSub(ballB.position, ballA.position)
        distanceSquared == MagnitudeSquaredRaw(delta)
        combinedRadius == ballA.radius + ballB.radius
        combinedRadiusSquared == combinedRadius * combinedRadius
    IN  IF distanceSquared < combinedRadiusSquared /\ distanceSquared > NEAR_ZERO_SQUARED
        THEN LET distance == Isqrt(distanceSquared)
             IN  [hasCollision |-> TRUE, normal |-> VDivide(delta, distance),
                  penetration |-> combinedRadius - distance]
        ELSE NoCollision

\* ------------------------------------------------------------------ spatial partition

\* the largest radius among the bodies present
maxRadius(bodies) ==
    LET radii == { bodies[i].radius : i \in 1..Len(bodies) }
    IN  CHOOSE r \in radii : \A q \in radii : q <= r

\* mutant of cellSizeFor: the cell is one radius wide
cellSizeFromRadius(bodies) == maxRadius(bodies)

\* the cell size the physics step derives from the current maximum radius:
\* one diameter, the reach of the largest overlapping pair
cellSizeFor(bodies) == 2 * maxRadius(bodies)

\* the cell coordinate of a body: (floor(x / cellSize), floor(y / cellSize))
cellOf(body, size) == << body.position.x \div size, body.position.y \div size >>

\* SpatialPartition::build: cleared, then every body put into its cell
build(bodies, size) ==
    LET occupied == { cellOf(bodies[i], size) : i \in 1..Len(bodies) }
    IN  [c \in occupied |-> { i \in 1..Len(bodies) : cellOf(bodies[i], size) = c }]

\* two cells are identical or 8-neighbouring
neighbouring(c1, c2) == Abs(c1[1] - c2[1]) <= 1 /\ Abs(c1[2] - c2[2]) <= 1

\* the cell the partition holds body i in
cellHolding(g, i) == CHOOSE c \in DOMAIN g : i \in g[c]

RECURSIVE scanPairs(_, _, _, _, _)
\* the scan of queryCandidatePairs from the pair (i, j) on; a pair is emitted
\* from its lower index only, so it is emitted once
scanPairs(g, n, i, j, acc) ==
    IF i >= n THEN acc
    ELSE IF j > n THEN scanPairs(g, n, i + 1, i + 2, acc)
    ELSE scanPairs(g, n, i, j + 1,
                   IF neighbouring(cellHolding(g, i), cellHolding(g, j))
                   THEN Append(acc, << i, j >>)
                   ELSE acc)

\* SpatialPartition::queryCandidatePairs over the n bodies that were built
queryCandidatePairs(g, n) == scanPairs(g, n, 1, 2, << >>)

\* ------------------------------------------------------------------ configuration

\* Config::CONTAINER_CENTER_X, Config::CONTAINER_CENTER_Y
CONTAINER_CENTER_X == 5000

CONTAINER_CENTER_Y == 5000

\* Config::WINDOW_WIDTH, Config::WINDOW_HEIGHT
WINDOW_WIDTH == 10000

WINDOW_HEIGHT == 10000

\* Config::BALL_RADIUS
BALL_RADIUS == 500

\* the multiple of the window extent that bounds the playfield
OFFSCREEN_MULTIPLE == 2

\* BallManager::spawnCenter, as GameState::GameState passes it
spawnCenter == Vector2D(CONTAINER_CENTER_X, CONTAINER_CENTER_Y)

\* BallManager::ballRadius, as GameState::GameState passes it
ballRadius == BALL_RADIUS

\* the container GameState::GameState constructs: side 40 units, gap 25%, side 0
GameContainer == NewContainer(spawnCenter, 4000, 25, 0)

\* ------------------------------------------------------------------ bounds

\* most bodies ever removed as off-screen in one run
MaxRemoved == 3

\* most bodies plus pending spawns a run may build up
MaxPopulation == 3

\* most calls of spawnInitialBall
MaxInitial == 2

\* probe positions of the detector lie within GridReach grid steps of the centre
GridReach == 20

\* respawnCount values the caller passes (the respawn slider)
RespawnCounts == {0, 1, 2}

\* the fixed time step of the frame loop, in 1/100 s (a quarter turn per tick)
TickDeltaTimes == {250}

\* ------------------------------------------------------------------ BallManager

\* Ball::isOffScreen: outside [-k*W, k*W] x [-k*H, k*H]
isOffScreen(ball, screenWidth, screenHeight) ==
    \/ Abs(ball.position.x) > OFFSCREEN_MULTIPLE * screenWidth
    \/ Abs(ball.position.y) > OFFSCREEN_MULTIPLE * screenHeight

\* BallManager::createRandomBall (random velocity and colour left out)
createRandomBall(position) == Ball(position, ballRadius)

\* mutant of wouldCollideWithBalls: the 2x safety margin is forgotten
wouldCollideNoMargin(bs, position) ==
    \E i \in 1..Len(bs) :
        LET distance == Distance(position, bs[i].position)
            minDistance == ballRadius + bs[i].radius
        IN  distance < minDistance

\* BallManager::wouldCollideWithBalls
wouldCollideWithBalls(bs, position) ==
    \E i \in 1..Len(bs) :
        LET distance == Distance(position, bs[i].position)
            minDistance == ballRadius + bs[i].radius
            safeDistance == minDistance * 2
        IN  distance < safeDistance

\* mutant of removeOffScreen: the loop stops after its first erase
removeFirstOffScreen(bs, screenWidth, screenHeight) ==
    LET off == { i \in 1..Len(bs) : isOffScreen(bs[i], screenWidth, screenHeight) }
    IN  IF off = {} THEN bs
        ELSE LET first == CHOOSE i \in off : \A j \in off : i <= j
             IN  SubSeq(bs, 1, first - 1) \o SubSeq(bs, first + 1, Len(bs))

\* BallManager::update, the erase loop: the bodies kept, in order
removeOffScreen(bs, screenWidth, screenHeight) ==
    SelectSeq(bs, LAMBDA b : ~isOffScreen(b, screenWidth, screenHeight))

\* mutant of addPending: the backlog increment is forgotten
addPendingDropped(pending, offScreenCount, count) == pending

\* mutant of addPending: one escape is counted however many bodies left
addPendingOnce(pending, offScreenCount, count) ==
    IF offScreenCount > 0 THEN pending + count ELSE pending

\* BallManager::update, the backlog increment
addPending(pending, offScreenCount, count) ==
    IF offScreenCount > 0 THEN pending + offScreenCount * count ELSE pending

\* mutant of trySpawn: the whole backlog is spawned at once
\* (what spawnReplacementBalls(pendingRespawnCount) would do)
trySpawnAll(kept, pending) ==
    IF pending > 0 /\ ~wouldCollideWithBalls(kept, spawnCenter)
    THEN [balls |-> kept \o [i \in 1..pending |-> createRandomBall(spawnCenter)],
          pending |-> 0, spawned |-> TRUE]
    ELSE [balls |-> kept, pending |-> pending, spawned |-> FALSE]

\* mutant of trySpawn: a body is spawned only when no body at all is left
trySpawnIntoEmpty(kept, pending) ==
    IF pending > 0 /\ kept = << >>
    THEN [balls |-> Append(kept, createRandomBall(spawnCenter)),
          pending |-> pending - 1, spawned |-> TRUE]
    ELSE [balls |-> kept, pending |-> pending, spawned |-> FALSE]

\* BallManager::update, the spawn attempt on the kept bodies
trySpawn(kept, pending) ==
    IF pending > 0 /\ ~wouldCollideWithBalls(kept, spawnCenter)
    THEN [balls |-> Append(kept, createRandomBall(spawnCenter)),
          pending |-> pending - 1, spawned |-> TRUE]
    ELSE [balls |-> kept, pending |-> pending, spawned |-> FALSE]

\* BallManager::update as a function of the manager's state
BallManagerUpdated(bs, pending, screenWidth, screenHeight, count) ==
    LET kept == removeOffScreen(bs, screenWidth, screenHeight)
        offScreenCount == Len(bs) - Len(kept)
        r == trySpawn(kept, addPending(pending, offScreenCount, count))
    IN  [balls |-> r.balls, pending |-> r.pending,
         offScreenCount |-> offScreenCount, spawned |-> r.spawned]

\* ------------------------------------------------------------------ state

VARIABLES
    container,            \* GameState::container
    balls,                \* BallManager::balls
    pendingRespawnCount,  \* BallManager::pendingRespawnCount
    respawnCount,         \* the respawnCount argument of this run
    pc,                   \* the next call of GameState::update
    callLog,              \* the calls the current tick has made, in order
    initialCount,         \* N: bodies spawned by spawnInitialBall
    removedTotal,         \* M: bodies removed as off-screen so far
    spawnedTotal,         \* S: bodies spawned by BallManager::update so far
    lastOffScreenCount,   \* offScreenCount of the last BallManager::update
    lastSpawned,          \* whether the last BallManager::update spawned
    physicsSaw,           \* what the tick's physics step was given
    info,                 \* result of the last checkContainerCollision
    rot,                  \* container before the last call on it, and its deltaTime
    infoSwapped,          \* result of checkBallCollision with the arguments swapped
    cellSize,             \* SpatialPartition::cellSize of the last build
    grid,                 \* SpatialPartition: cell coordinate -> indices of its bodies
    candidatePairs        \* result of the last queryCandidatePairs

vars == << container, balls, pendingRespawnCount, respawnCount, pc, callLog,
           initialCount, removedTotal, spawnedTotal, lastOffScreenCount,
           lastSpawned, physicsSaw, info, rot, infoSwapped,
           cellSize, grid, candidatePairs >>

\* the variables only the broad-phase runs write
gridVars == << cellSize, grid, candidatePairs >>

\* the variables only the pair and broad-phase runs write
pairVars == << infoSwapped, gridVars >>

lifecycleVars == << balls, pendingRespawnCount, respawnCount, initialCount,
                    removedTotal, spawnedTotal, lastOffScreenCount, lastSpawned >>

\* positions the physics step may leave a body at: the spawn point, a point
\* nearer than the safety distance, a point at exactly the safety distance,
\* and a point beyond the playfield in x and in y
Positions ==
    { spawnCenter,
      Vector2D(CONTAINER_CENTER_X + 1500, CONTAINER_CENTER_Y),
      Vector2D(CONTAINER_CENTER_X + 1200, CONTAINER_CENTER_Y - 1600),
      Vector2D(-(OFFSCREEN_MULTIPLE * WINDOW_WIDTH) - 100, CONTAINER_CENTER_Y),
      Vector2D(CONTAINER_CENTER_X, OFFSCREEN_MULTIPLE * WINDOW_HEIGHT + 100) }

OffScreenCountOf(bs) ==
    Len(bs) - Len(removeOffScreen(bs, WINDOW_WIDTH, WINDOW_HEIGHT))

\* GameState::GameState: the state after construction
Init ==
    /\ container = GameContainer
    /\ balls = << >>
    /\ pendingRespawnCount = 0
    /\ respawnCount \in RespawnCounts
    /\ pc = "container.update"
    /\ callLog = << >>
    /\ initialCount = 0
    /\ removedTotal = 0
    /\ spawnedTotal = 0
    /\ lastOffScreenCount = 0
    /\ lastSpawned = FALSE
    /\ physicsSaw = [angle |-> 0, count |-> 0]
    /\ info = NoCollision
    /\ rot = [prev |-> GameContainer, dt |-> 0]
    /\ infoSwapped = NoCollision
    /\ cellSize = 0
    /\ grid = << >>
    /\ candidatePairs = << >>

\* GameState::initialize -> BallManager::spawnInitialBall, before the first tick
SpawnInitialBall ==
    /\ callLog = << >>
    /\ initialCount < MaxInitial
    /\ balls' = Append(balls, createRandomBall(spawnCenter))
    /\ initialCount' = initialCount + 1
    /\ UNCHANGED << container, pendingRespawnCount, respawnCount, pc, callLog,
                    removedTotal, spawnedTotal, lastOffScreenCount, lastSpawned,
                    physicsSaw, info, rot, pairVars >>

\* mutant of NextCall: the lifecycle update runs before the physics step
NextCallLifecycleFirst(p) ==
    CASE p = "container.update" -> "ballManager.update"
      [] p = "ballManager.update" -> "physics.update"
      [] p = "physics.update" -> "container.update"

\* GameState::update: the call that follows call p within a tick
NextCall(p) ==
    CASE p = "container.update" -> "physics.update"
      [] p = "physics.update" -> "ballManager.update"
      [] p = "ballManager.update" -> "container.update"

\* GameState::update, first call: container.update(deltaTime)
ContainerUpdate(deltaTime) ==
    /\ pc = "container.update"
    /\ container' = ContainerUpdated(container, deltaTime)
    /\ rot' = [prev |-> container, dt |-> deltaTime]
    /\ callLog' = << "container.update" >>
    /\ pc' = NextCall(pc)
    /\ UNCHANGED << lifecycleVars, physicsSaw, info, pairVars >>

\* GameState::update, second call: physics.update(balls, container, ...).
\* The physics engine moves bodies in place; where it leaves them is open.
PhysicsUpdate ==
    /\ pc = "physics.update"
    /\ \E f \in [1..Len(balls) -> Positions] :
          LET moved == [i \in 1..Len(balls) |-> [balls[i] EXCEPT !.position = f[i]]]
              off == OffScreenCountOf(moved)
          IN  /\ removedTotal + off <= MaxRemoved
              /\ Len(moved) - off + pendingRespawnCount + off * respawnCount
                     <= MaxPopulation
              /\ balls' = moved
    /\ physicsSaw' = [angle |-> container.currentAngleRad, count |-> Len(balls)]
    /\ callLog' = Append(callLog, "physics.update")
    /\ pc' = NextCall(pc)
    /\ UNCHANGED << container, pendingRespawnCount, respawnCount, initialCount,
                    removedTotal, spawnedTotal, lastOffScreenCount, lastSpawned,
                    info, rot, pairVars >>

\* GameState::update, third call: ballManager.update(W, H, respawnCount)
BallManagerUpdate ==
    /\ pc = "ballManager.update"
    /\ \E u \in { BallManagerUpdated(balls, pendingRespawnCount,
                                       WINDOW_WIDTH, WINDOW_HEIGHT, respawnCount) } :
           /\ balls' = u.balls
           /\ pendingRespawnCount' = u.pending
           /\ removedTotal' = removedTotal + u.offScreenCount
           /\ spawnedTotal' = spawnedTotal + (IF u.spawned THEN 1 ELSE 0)
           /\ lastOffScreenCount' = u.offScreenCount
           /\ lastSpawned' = u.spawned
    /\ callLog' = Append(callLog, "ballManager.update")
    /\ pc' = NextCall(pc)
    /\ UNCHANGED << container, respawnCount, initialCount, physicsSaw, info, rot,
                    pairVars >>

Next ==
    \/ SpawnInitialBall
    \/ \E dt \in TickDeltaTimes : ContainerUpdate(dt)
    \/ PhysicsUpdate
    \/ BallManagerUpdate

Spec == Init /\ [][Next]_vars

\* the frame loop never stops: every call of GameState::update is made in turn
SpecLive ==
    /\ Init
    /\ [][Next]_vars
    /\ WF_vars(\E dt \in TickDeltaTimes : ContainerUpdate(dt))
    /\ WF_vars(PhysicsUpdate)
    /\ WF_vars(BallManagerUpdate)

\* ------------------------------------------------------------------ detector runs

\* one grid step of the probe positions: 1.25 units
GridStep == FP + FP \div 4

\* body centres the detector is applied to
ProbePositions ==
    { Vector2D(CONTAINER_CENTER_X + i * GridStep, CONTAINER_CENTER_Y + j * GridStep) :
        i \in -GridReach..GridReach, j \in -GridReach..GridReach }

\* sides that carry the gap in the detector runs
GapSides == {0, 3}

\* the body the detector is applied to
probe == balls[1]

\* the geometry of edge k (1..4) for the probe, as the detector computes it
ProbeGeometry(k) ==
    edgeGeometry(probe, container, getWorldEdges(container)[k], getGapBoundaries(container))

\* the contact edge k (1..4) offers the probe, as the detector computes it
ProbeContact(k) ==
    edgeContact(probe, container, getWorldEdges(container)[k], getGapBoundaries(container))

\* every input of checkContainerCollision: a container at an exact angle, a body
InitDetect ==
    /\ container \in { [NewContainer(spawnCenter, 4000, 25, g) EXCEPT !.currentAngleRad = a] :
                         g \in GapSides, a \in ExactAngles }
    /\ balls \in { << Ball(p, BALL_RADIUS) >> : p \in ProbePositions }
    /\ pendingRespawnCount = 0
    /\ respawnCount = 0
    /\ pc = "detect"
    /\ callLog = << >>
    /\ initialCount = 1
    /\ removedTotal = 0
    /\ spawnedTotal = 0
    /\ lastOffScreenCount = 0
    /\ lastSpawned = FALSE
    /\ physicsSaw = [angle |-> 0, count |-> 0]
    /\ info = NoCollision
    /\ rot = [prev |-> container, dt |-> 0]
    /\ infoSwapped = NoCollision
    /\ cellSize = 0
    /\ grid = << >>
    /\ candidatePairs = << >>

\* CollisionDetector::checkContainerCollision applied to the probe
CheckContainerCollision ==
    /\ pc = "detect"
    /\ info' = checkContainerCollision(probe, container)
    /\ pc' = "detected"
    /\ UNCHANGED << container, lifecycleVars, callLog, physicsSaw, rot, pairVars >>

NextDetect == CheckContainerCollision

SpecDetect == InitDetect /\ [][NextDetect]_vars

\* ------------------------------------------------------------------ rotation runs

\* deltaTime values of the rotation runs, in 1/100 s (1000 is a full turn)
DeltaTimes == {0, 5, 25, 250, 1000}

InitRot ==
    /\ container \in { NewContainer(spawnCenter, 4000, f, g) : f \in {25, 50}, g \in GapSides }
    /\ balls = << >>
    /\ pendingRespawnCount = 0
    /\ respawnCount = 0
    /\ pc = "rotate"
    /\ callLog = << >>
    /\ initialCount = 0
    /\ removedTotal = 0
    /\ spawnedTotal = 0
    /\ lastOffScreenCount = 0
    /\ lastSpawned = FALSE
    /\ physicsSaw = [angle |-> 0, count |-> 0]
    /\ info = NoCollision
    /\ rot = [prev |-> container, dt |-> 0]
    /\ infoSwapped = NoCollision
    /\ cellSize = 0
    /\ grid = << >>
    /\ candidatePairs = << >>

\* Container::update(deltaTime), called on its own
RotateContainer(deltaTime) ==
    /\ pc = "rotate"
    /\ container' = ContainerUpdated(container, deltaTime)
    /\ rot' = [prev |-> container, dt |-> deltaTime]
    /\ UNCHANGED << lifecycleVars, pc, callLog, physicsSaw, info, pairVars >>

NextRot == \E dt \in DeltaTimes : RotateContainer(dt)

SpecRot == InitRot /\ [][NextRot]_vars

\* ------------------------------------------------------------------ geometry runs

\* side lengths the boundary-size control sets, in fixed point
SideLengths == {2000, 3330, 4000, 6000}

\* gap fractions the gap-size control sets, in 1/100
GapFractions == {10, 25, 33, 50, 90}

\* a container with any gap side, at any exact angle
InitGeom ==
    /\ container \in { [NewContainer(spawnCenter, l, f, g) EXCEPT !.currentAngleRad = a] :
                         l \in SideLengths, f \in GapFractions, g \in 0..3,
                         a \in ExactAngles }
    /\ balls = << >>
    /\ pendingRespawnCount = 0
    /\ respawnCount = 0
    /\ pc = "geometry"
    /\ callLog = << >>
    /\ initialCount = 0
    /\ removedTotal = 0
    /\ spawnedTotal = 0
    /\ lastOffScreenCount = 0
    /\ lastSpawned = FALSE
    /\ physicsSaw = [angle |-> 0, count |-> 0]
    /\ info = NoCollision
    /\ rot = [prev |-> container, dt |-> 0]
    /\ infoSwapped = NoCollision
    /\ cellSize = 0
    /\ grid = << >>
    /\ candidatePairs = << >>

\* Container::setSideLength(newSideLength)
SetSideLength(newSideLength) ==
    /\ pc = "geometry"
    /\ container' = setSideLength(container, newSideLength)
    /\ rot' = [prev |-> container, dt |-> 0]
    /\ callLog' = << "setSideLength" >>
    /\ UNCHANGED << lifecycleVars, pc, physicsSaw, info, pairVars >>

\* Container::setGapSizeFraction(fraction)
SetGapSizeFraction(fraction) ==
    /\ pc = "geometry"
    /\ container' = setGapSizeFraction(container, fraction)
    /\ rot' = [prev |-> container, dt |-> 0]
    /\ callLog' = << "setGapSizeFraction" >>
    /\ UNCHANGED << lifecycleVars, pc, physicsSaw, info, pairVars >>

\* Container::update(deltaTime) of a quarter turn
TurnQuarter ==
    /\ pc = "geometry"
    /\ container' = ContainerUpdated(container, 250)
    /\ rot' = [prev |-> container, dt |-> 250]
    /\ callLog' = << "container.update" >>
    /\ UNCHANGED << lifecycleVars, pc, physicsSaw, info, pairVars >>

NextGeom ==
    \/ \E l \in SideLengths : SetSideLength(l)
    \/ \E f \in GapFractions : SetGapSizeFraction(f)
    \/ TurnQuarter

SpecGeom == InitGeom /\ [][NextGeom]_vars

\* ------------------------------------------------------------------ pair runs

\* one grid step of the offsets between the two bodies: half a unit
PairStep == FP \div 2

\* offsets of body b from body a: a grid that holds touching and overlapping
\* pairs, and the offsets of at most two fixed-point steps around coincidence
PairOffsets ==
    { Vector2D(i * PairStep, j * PairStep) :
        i \in -GridReach..GridReach, j \in -GridReach..GridReach }
    \cup { Vector2D(i, j) : i \in -2..2, j \in -2..2 }

\* radii of the two bodies
PairRadii == {BALL_RADIUS, 300, 200}

\* the two bodies checkBallCollision is applied to
ballA == balls[1]

ballB == balls[2]

\* every input of checkBallCollision: two bodies
InitPair ==
    /\ container = GameContainer
    /\ balls \in { << Ball(spawnCenter, ra), Ball(VAdd(spawnCenter, d), rb) >> :
                     ra \in PairRadii, rb \in PairRadii, d \in PairOffsets }
    /\ pendingRespawnCount = 0
    /\ respawnCount = 0
    /\ pc = "detect"
    /\ callLog = << >>
    /\ initialCount = 2
    /\ removedTotal = 0
    /\ spawnedTotal = 0
    /\ lastOffScreenCount = 0
    /\ lastSpawned = FALSE
    /\ physicsSaw = [angle |-> 0, count |-> 0]
    /\ info = NoCollision
    /\ rot = [prev |-> container, dt |-> 0]
    /\ infoSwapped = NoCollision
    /\ cellSize = 0
    /\ grid = << >>
    /\ candidatePairs = << >>

\* CollisionDetector::checkBallCollision(a, b)
CheckBallCollision ==
    /\ pc = "detect"
    /\ info' = checkBallCollision(ballA, ballB)
    /\ pc' = "detected"
    /\ UNCHANGED << container, lifecycleVars, callLog, physicsSaw, rot, infoSwapped,
                    gridVars >>

\* CollisionDetector::checkBallCollision(b, a)
CheckBallCollisionSwapped ==
    /\ pc = "detected"
    /\ infoSwapped' = checkBallCollision(ballB, ballA)
    /\ pc' = "swapped"
    /\ UNCHANGED << container, lifecycleVars, callLog, physicsSaw, rot, info,
                    gridVars >>

NextPair == CheckBallCollision \/ CheckBallCollisionSwapped

SpecPair == InitPair /\ [][NextPair]_vars

\* ------------------------------------------------------------------ broad-phase runs

\* coordinates of the first body: around zero and around the cell borders
GridCoords == {-1200, -1, 0, 599, 999}

\* offsets of the second body from the first: touching, overlapping and apart
GridOffsets ==
    { Vector2D(dx, dy) : dx \in {-1000, -800, -600, -480, -360, 0, 360, 480, 1001},
                         dy \in {-1000, -800, -600, -480, -360, 0, 360, 480, 1001} }

\* radii of the bodies present
GridRadii == {BALL_RADIUS, 300}

\* three bodies: the first two near each other, the third apart from them
InitGrid ==
    /\ container = GameContainer
    /\ balls \in { << Ball(Vector2D(x, y), r1),
                       Ball(VAdd(Vector2D(x, y), d), r2),
                       Ball(Vector2D(x + 700, 5000), r3) >> :
                     x \in GridCoords, y \in GridCoords, d \in GridOffsets,
                     r1 \in GridRadii, r2 \in GridRadii, r3 \in GridRadii }
    /\ pendingRespawnCount = 0
    /\ respawnCount = 0
    /\ pc = "build"
    /\ callLog = << >>
    /\ initialCount = 3
    /\ removedTotal = 0
    /\ spawnedTotal = 0
    /\ lastOffScreenCount = 0
    /\ lastSpawned = FALSE
    /\ physicsSaw = [angle |-> 0, count |-> 0]
    /\ info = NoCollision
    /\ rot = [prev |-> container, dt |-> 0]
    /\ infoSwapped = NoCollision
    /\ cellSize = 0
    /\ grid = << >>
    /\ candidatePairs = << >>

\* the physics step rebuilds the partition, sized from the current maximum radius
Build ==
    /\ pc = "build"
    /\ cellSize' = cellSizeFor(balls)
    /\ grid' = build(balls, cellSizeFor(balls))
    /\ pc' = "query"
    /\ UNCHANGED << container, lifecycleVars, callLog, physicsSaw, info, rot,
                    infoSwapped, candidatePairs >>

\* the physics step asks the partition for the candidate pairs
QueryCandidatePairs ==
    /\ pc = "query"
    /\ candidatePairs' = queryCandidatePairs(grid, Len(balls))
    /\ pc' = "queried"
    /\ UNCHANGED << container, lifecycleVars, callLog, physicsSaw, info, rot,
                    infoSwapped, cellSize, grid >>

NextGrid == Build \/ QueryCandidatePairs

SpecGrid == InitGrid /\ [][NextGrid]_vars

\* ------------------------------------------------------------------ claims, lifecycle

\* the bodies of bs that are on screen, in order
OnScreen(bs) == SelectSeq(bs, LAMBDA b : ~isOffScreen(b, WINDOW_WIDTH, WINDOW_HEIGHT))

\* the backlog after the increment of a BallManager::update in the current state
BacklogAfterCull ==
    pendingRespawnCount + (Len(balls) - Len(OnScreen(balls))) * respawnCount

\* C1: with a constant respawnCount r, N initial bodies, M bodies removed as
\* off-screen and S bodies spawned by update, pendingRespawnCount = M*r - S and
\* the body count = N - M + S, and neither is negative.
C1_LifecycleConservation ==
    /\ pendingRespawnCount = removedTotal * respawnCount - spawnedTotal
    /\ Len(balls) = initialCount - removedTotal + spawnedTotal
    /\ pendingRespawnCount >= 0
    /\ Len(balls) >= 0

\* C1 witness: two bodies left in one call, one was respawned, one is pending
C1_Witness ==
    /\ lastOffScreenCount >= 2
    /\ removedTotal >= 2
    /\ spawnedTotal >= 1
    /\ pendingRespawnCount >= 1

\* C2: one call of BallManager::update adds at most one body and takes at most
\* one off the backlog, however many bodies it removed and however large the
\* backlog is.
C2_SpawnRateLimited ==
    [][pc = "ballManager.update" =>
          /\ Len(balls') <= Len(OnScreen(balls)) + 1
          /\ Len(balls') <= Len(balls) + 1
          /\ pendingRespawnCount' >= BacklogAfterCull - 1
          /\ pendingRespawnCount' >= pendingRespawnCount - 1]_vars

\* C2 witness: a call removed two bodies, spawned one and left a backlog
C2_Witness ==
    /\ lastOffScreenCount >= 2
    /\ lastSpawned
    /\ pendingRespawnCount >= 1
    /\ Len(balls) = 1

\* the spawn point is clear of the on-screen bodies: none is nearer than
\* 2 * (ballRadius + its radius)
SpawnPointClear ==
    \A i \in 1..Len(OnScreen(balls)) :
        LET b == OnScreen(balls)[i]
            d == 2 * (ballRadius + b.radius)
        IN  MagnitudeSquaredRaw(VSub(spawnCenter, b.position)) >= d * d

\* C3: BallManager::update spawns iff, after its removals and backlog increment,
\* the backlog is positive and the spawn point is clear; a spawn appends exactly
\* one body at the spawn point and takes exactly one off the backlog; no spawn
\* follows a spawn while the spawned body still sits on the spawn point.
C3_SpawnIffClear ==
    [][pc = "ballManager.update" =>
          LET kept == OnScreen(balls)
              spawns == BacklogAfterCull > 0 /\ SpawnPointClear
          IN  /\ spawns =>
                    /\ balls' = Append(kept, Ball(spawnCenter, ballRadius))
                    /\ pendingRespawnCount' = BacklogAfterCull - 1
              /\ ~spawns =>
                    /\ balls' = kept
                    /\ pendingRespawnCount' = BacklogAfterCull
              /\ (lastSpawned /\ \E i \in 1..Len(kept) : kept[i].position = spawnCenter)
                    => balls' = kept]_vars

\* C3 witness: a spawn beside a body that sits at exactly the safety distance
C3_Witness ==
    /\ lastSpawned
    /\ Len(balls) >= 2
    /\ \E i \in 1..Len(balls) :
          MagnitudeSquaredRaw(VSub(spawnCenter, balls[i].position))
              = (2 * (ballRadius + balls[i].radius)) * (2 * (ballRadius + balls[i].radius))

\* C4: BallManager::update removes exactly the off-screen bodies (the others are
\* kept, unmodified, in order); no other call of the tick removes a body.
C4_CullSoleDeletion ==
    [][/\ pc = "ballManager.update" =>
             /\ Len(balls') >= Len(OnScreen(balls))
             /\ SubSeq(balls', 1, Len(OnScreen(balls))) = OnScreen(balls)
             /\ OnScreen(balls') = balls'
       /\ pc # "ballManager.update" => Len(balls') >= Len(balls)]_vars

\* C4 witness: a call removed a body and kept another that is not at the spawn point
C4_Witness ==
    /\ lastOffScreenCount >= 1
    /\ ~lastSpawned
    /\ Len(balls) >= 1
    /\ balls[1].position # spawnCenter

\* the calls of one tick, in order
TickCalls == << "container.update", "physics.update", "ballManager.update" >>

\* C9: every GameState::update makes the three calls once each, in the order
\* rotation, physics, lifecycle: physics sees the rotated boundary and the
\* bodies of the tick's start, the cull sees the positions physics left.
C9_TickOrdering ==
    /\ Len(callLog) <= 3
    /\ callLog = SubSeq(TickCalls, 1, Len(callLog))
    /\ callLog # << >> => pc = TickCalls[(Len(callLog) % 3) + 1]
    /\ Len(callLog) >= 2 => physicsSaw.angle = container.currentAngleRad
    /\ Len(callLog) = 3 =>
          /\ physicsSaw.count
                = Len(balls) + lastOffScreenCount - (IF lastSpawned THEN 1 ELSE 0)
          /\ OnScreen(balls) = balls

\* C9 witness: a finished tick whose lifecycle update removed and spawned
C9_Witness ==
    /\ Len(callLog) = 3
    /\ pc = "container.update"
    /\ lastOffScreenCount >= 1
    /\ lastSpawned
    /\ container.currentAngleRad # 0

\* C14: if from some point on no body goes off-screen, and infinitely often
\* BallManager::update is called with the spawn point clear, the backlog
\* reaches 0 and stays there; a call with the spawn point clear and a backlog
\* spawns one body, a call with the spawn point blocked keeps the backlog.
C14_BacklogDrains ==
    /\ [][pc = "ballManager.update" =>
             /\ ~SpawnPointClear =>
                   /\ pendingRespawnCount' = BacklogAfterCull
                   /\ Len(balls') = Len(OnScreen(balls))
             /\ (SpawnPointClear /\ BacklogAfterCull > 0) =>
                   /\ pendingRespawnCount' = BacklogAfterCull - 1
                   /\ Len(balls') = Len(OnScreen(balls)) + 1]_vars
    /\ (/\ <>[](OffScreenCountOf(balls) = 0)
        /\ []<>(pc = "ballManager.update" /\ SpawnPointClear))
          => <>[](pendingRespawnCount = 0)

\* C14 witness: a backlog of two was drained over two calls, the second of
\* which removed nothing
C14_Witness ==
    /\ pc = "container.update"
    /\ respawnCount = 2
    /\ removedTotal = 1
    /\ spawnedTotal = 2
    /\ lastSpawned
    /\ lastOffScreenCount = 0
    /\ pendingRespawnCount = 0
    /\ Len(balls) = 2

\* body count plus backlog
Population == Len(balls) + pendingRespawnCount

\* C15: with respawnCount >= 1 no BallManager::update lowers body count +
\* backlog, so once spawnInitialBall has run it is always >= 1; with
\* respawnCount = 0 an update lowers it by the number of bodies that escaped,
\* and once no body and no backlog is left the body count stays 0.  No other
\* call lowers it.
C15_PopulationSurvives ==
    /\ []((respawnCount >= 1 /\ initialCount >= 1) => Population >= 1)
    /\ [][/\ (pc = "ballManager.update" /\ respawnCount >= 1) =>
                Len(balls') + pendingRespawnCount' >= Population
          /\ (pc = "ballManager.update" /\ respawnCount = 0) =>
                Len(balls') + pendingRespawnCount'
                    = Population - (Len(balls) - Len(OnScreen(balls)))
          /\ pc # "ballManager.update" =>
                Len(balls') + pendingRespawnCount' >= Population
          /\ (respawnCount = 0 /\ callLog # << >> /\ Population = 0) =>
                Len(balls') = 0 /\ pendingRespawnCount' = 0]_vars

\* C15 witness: with respawnCount = 1 both bodies escaped in one call; one was
\* respawned at once, the other is pending
C15_Witness ==
    /\ pc = "container.update"
    /\ respawnCount = 1
    /\ initialCount = 2
    /\ lastOffScreenCount = 2
    /\ Len(balls) = 1
    /\ pendingRespawnCount = 1

\* C15, the case respawnCount = 0: every body has escaped and none is left
C15_DiedOut ==
    /\ respawnCount = 0
    /\ initialCount >= 1
    /\ removedTotal = initialCount
    /\ Len(balls) = 0
    /\ pendingRespawnCount = 0

\* ------------------------------------------------------------------ claims, detector

\* edges whose contact the detector accepts for the probe
ValidEdges == { k \in 1..4 : ProbeContact(k).valid }

\* edges the probe overlaps: not skipped, and nearer than the radius
OverlappedEdges ==
    { k \in 1..4 : ~ProbeGeometry(k).skipped /\ ProbeGeometry(k).distance < probe.radius }

\* the probe's centre is on the interior side of edge k (exact sign, no rounding)
InteriorSide(k) ==
    LET g == ProbeGeometry(k)
    IN  \/ g.distance = 0
        \/ g.toBallFromEdge.x * g.edgePerp.x + g.toBallFromEdge.y * g.edgePerp.y < 0

\* the closest point of the gap-bearing edge lies in the gap span:
\* dist(closest, gapStart) + dist(closest, gapEnd) <= gapLength + tolerance
InGapSpan ==
    LET g == ProbeGeometry(container.gapSide + 1)
        gap == getGapBoundaries(container)
    IN  Distance(g.closestPoint, gap.gapStart) + Distance(g.closestPoint, gap.gapEnd)
            <= Distance(gap.gapStart, gap.gapEnd) + GAP_EPSILON

MaxOf(S) == CHOOSE m \in S : \A n \in S : n <= m

\* C5: a contact is reported only with an edge the body overlaps (distance <
\* radius); a body whose centre is outside an edge by its radius or more, and
\* that overlaps no edge, gets no boundary contact.
C5_GrazingReentryOnly ==
    pc = "detected" => (info.hasCollision => OverlappedEdges # {})

\* C6: when more than one edge offers a valid contact, the single contact
\* returned is the one of largest penetration among them.
C6_DeepestContact ==
    (pc = "detected" /\ Cardinality(ValidEdges) >= 2) =>
        /\ info.hasCollision
        /\ info.penetration = MaxOf({ ProbeContact(k).penetration : k \in ValidEdges })

\* C7 as claimed: a body whose centre projects into the gap span of the
\* gap-bearing edge gets no boundary contact at all (stated for a body whose
\* centre is on the interior side of all four edges).
C7_GapNoContactAtAll ==
    (pc = "detected" /\ InGapSpan /\ \A k \in 1..4 : InteriorSide(k)) => ~info.hasCollision

\* C7 amended: such a body gets no contact from the gap-bearing edge, however
\* close to it; a contact is returned iff one of the other three edges offers
\* one, and then it is that edge's contact.
C7_GapEdgeTransparent ==
    (pc = "detected" /\ InGapSpan) =>
        LET others == ValidEdges \ {container.gapSide + 1}
        IN  /\ info.hasCollision <=> others # {}
            /\ info.hasCollision =>
                  \E k \in others :
                      /\ info.penetration = ProbeContact(k).penetration
                      /\ info.normal = ProbeContact(k).normal

\* C7 witness: at a turned boundary, a body overlapping the gap span of the
\* gap-bearing edge gets no contact
C7_Witness ==
    /\ pc = "detected"
    /\ InGapSpan
    /\ ProbeGeometry(container.gapSide + 1).distance < probe.radius
    /\ container.currentAngleRad \notin {0, 900, 1800, 2700}
    /\ ~info.hasCollision

\* edges the probe overlaps from the interior side
InsideOverlaps == { k \in OverlappedEdges : InteriorSide(k) }

C10_RotationAngleRange ==
    /\ container.currentAngleRad >= 0
    /\ container.currentAngleRad < TWO_PI
    /\ container =
          [rot.prev EXCEPT !.currentAngleRad =
              (rot.prev.currentAngleRad + (36 * rot.dt * PI) \div (180 * FP)) % TWO_PI]
    /\ rot.dt = 1000 => container.currentAngleRad = rot.prev.currentAngleRad

\* C10 witness: a quarter-turn call that wrapped the angle past 2*pi
C10_Witness ==
    /\ rot.dt = 250
    /\ rot.prev.currentAngleRad > 0
    /\ container.currentAngleRad < rot.prev.currentAngleRad

\* ------------------------------------------------------------------ claims, pair

\* squared centre distance of the two bodies, in fixed-point squares
PairDistanceSquared ==
    (ballB.position.x - ballA.position.x) * (ballB.position.x - ballA.position.x)
      + (ballB.position.y - ballA.position.y) * (ballB.position.y - ballA.position.y)

\* the two circles overlap, and the centres are farther apart than the guard
PairOverlaps ==
    /\ PairDistanceSquared < (ballA.radius + ballB.radius) * (ballA.radius + ballB.radius)
    /\ PairDistanceSquared > NEAR_ZERO_SQUARED

C12_SingleCenteredGap ==
    LET edges == getWorldEdges(container)
        gap == getGapBoundaries(container)
        e == edges[container.gapSide + 1]
        ev == VSub(e.end, e.start)
        len == container.sideLength
        gs == VSub(gap.gapStart, e.start)
        ge == VSub(gap.gapEnd, e.start)
    IN  /\ DOMAIN edges = 1..4
        /\ { k \in 1..4 : edges[k].hasGap } = {container.gapSide + 1}
        /\ \A k \in 1..4 :
              /\ edges[k].sideIndex = k - 1
              /\ edges[k].end = edges[(k % 4) + 1].start
              /\ Abs(Distance(edges[k].start, edges[k].end) - len) <= 2
        /\ Abs(gap.gapStart.x + gap.gapEnd.x - e.start.x - e.end.x) <= 2
        /\ Abs(gap.gapStart.y + gap.gapEnd.y - e.start.y - e.end.y) <= 2
        /\ Abs(Distance(gap.gapStart, gap.gapEnd) * FP - len * container.gapSizeFraction)
              <= 2 * FP
        /\ Abs(gs.x * ev.y - gs.y * ev.x) <= 2 * len
        /\ Abs(ge.x * ev.y - ge.y * ev.x) <= 2 * len
        /\ gs.x * ev.x + gs.y * ev.y > 0
        /\ ge.x * ev.x + ge.y * ev.y > gs.x * ev.x + gs.y * ev.y
        /\ ge.x * ev.x + ge.y * ev.y < ev.x * ev.x + ev.y * ev.y

\* C12 witness: a turned container whose side length was just changed, and
\* whose gap is not on side 0
C12_Witness ==
    /\ callLog = << "setSideLength" >>
    /\ container.sideLength # rot.prev.sideLength
    /\ container.gapSide = 2
    /\ container.currentAngleRad \notin {0, 900, 1800, 2700}
    /\ Distance(getGapBoundaries(container).gapStart, getGapBoundaries(container).gapEnd)
          # Distance(getGapBoundaries(rot.prev).gapStart, getGapBoundaries(rot.prev).gapEnd)

\* ------------------------------------------------------------------ claims, broad phase

\* bodies i and j are within reach: centre distance <= sum of the radii
WithinReach(i, j) ==
    (balls[i].position.x - balls[j].position.x) * (balls[i].position.x - balls[j].position.x)
      + (balls[i].position.y - balls[j].position.y) * (balls[i].position.y - balls[j].position.y)
      <= (balls[i].radius + balls[j].radius) * (balls[i].radius + balls[j].radius)

\* how often the unordered pair {i, j} occurs among the candidate pairs
Occurrences(i, j) ==
    Cardinality({ k \in 1..Len(candidatePairs) :
                    candidatePairs[k] \in { << i, j >>, << j, i >> } })

\* C13: after build with the cell size derived from the current maximum
\* radius, queryCandidatePairs holds every pair of bodies within reach of each
\* other (distance <= sum of radii) exactly once, no pair twice, and only
\* pairs of bodies in the same or in 8-neighbouring cells.
C13_BroadPhaseSound ==
    pc = "queried" =>
        /\ \A i \in 1..Len(balls) : \A j \in 1..Len(balls) :
              /\ (i # j /\ WithinReach(i, j)) => Occurrences(i, j) = 1
              /\ i # j => Occurrences(i, j) <= 1
              /\ Occurrences(i, i) = 0
        /\ \A k \in 1..Len(candidatePairs) :
              LET a == balls[candidatePairs[k][1]].position
                  b == balls[candidatePairs[k][2]].position
              IN  /\ Abs(a.x \div cellSize - b.x \div cellSize) <= 1
                  /\ Abs(a.y \div cellSize - b.y \div cellSize) <= 1

\* C13 witness: two exactly touching bodies, smaller than the largest one, in
\* diagonally neighbouring cells on either side of zero, are a candidate pair
C13_Witness ==
    /\ pc = "queried"
    /\ (balls[1].position.x - balls[2].position.x) * (balls[1].position.x - balls[2].position.x)
         + (balls[1].position.y - balls[2].position.y) * (balls[1].position.y - balls[2].position.y)
         = (balls[1].radius + balls[2].radius) * (balls[1].radius + balls[2].radius)
    /\ balls[1].radius + balls[2].radius < cellSize
    /\ balls[2].position.x < 0
    /\ balls[1].position.x >= 0
    /\ balls[1].position.y \div cellSize # balls[2].position.y \div cellSize
    /\ Occurrences(1, 2) = 1

====
